---- MODULE Spec2Model ----
(***************************************************************************)
(* Model of src/patterns.rs: `impl Rewrite for Pat` and                    *)
(* `impl Rewrite for FieldPat`.                                            *)
(*                                                                         *)
(* A string is a sequence of one-character strings, so that lengths, line  *)
(* breaks and concatenation are computed and not assumed.  Option<String>  *)
(* is a record [some, str]; Option<usize> is a record [some, val].  An     *)
(* Indent is its width in columns.                                         *)
(***************************************************************************)
EXTENDS Integers, Sequences, FiniteSets, TLC

VARIABLES target, node, width, offset, budget, result, prev, retried, pc

vars == <<target, node, width, offset, budget, result, prev, retried, pc>>

(***************************************************************************)
(* Bounds of the model.                                                    *)
(***************************************************************************)
\* context.config.max_width of the run (rustfmt's default is 100).
max_width == 17
\* largest indentation a top-level call is made with
MaxOffset == 1

(***************************************************************************)
(* Option values and strings.                                              *)
(***************************************************************************)
NoneStr == [some |-> FALSE, str |-> <<>>]
SomeStr(s) == [some |-> TRUE, str |-> s]
NoneInt == [some |-> FALSE, val |-> 0]
SomeInt(n) == [some |-> TRUE, val |-> n]

NL == "\n"

Contains(s, c) == \E i \in 1..Len(s) : s[i] = c

\* indices of the line breaks of s
Breaks(s) == {i \in 1..Len(s) : s[i] = NL}

Min(S) == CHOOSE m \in S : \A n \in S : m <= n

\* str::lines(): the text split at '\n'; a final empty line is not a line
Lines(s) ==
  LET bs == Breaks(s)
      starts == {1} \cup {b + 1 : b \in bs}
      lineAt(b) == LET e == IF \E c \in bs : c >= b THEN Min({c \in bs : c >= b}) - 1
                                                   ELSE Len(s)
                   IN  SubSeq(s, b, e)
      kept == {b \in starts : b <= Len(s)}
      nth[k \in 1..Cardinality(kept)] ==
        IF k = 1 THEN Min(kept) ELSE Min({b \in kept : b > nth[k - 1]})
  IN  [k \in 1..Cardinality(kept) |-> lineAt(nth[k])]

FirstLineLen(s) == IF Breaks(s) = {} THEN Len(s) ELSE Min(Breaks(s)) - 1

Spaces(n) == [i \in 1..n |-> " "]

RECURSIVE Join(_, _)
Join(strs, sep) ==
  IF Len(strs) = 0 THEN <<>>
  ELSE IF Len(strs) = 1 THEN strs[1]
  ELSE strs[1] \o sep \o Join(Tail(strs), sep)

(***************************************************************************)
(* String literals of the source.                                          *)
(***************************************************************************)
box_str == <<"b", "o", "x", " ">>
ref_str == <<"r", "e", "f", " ">>
mut_str == <<"m", "u", "t", " ">>
at_str == <<" ", "@", " ">>
underscore_str == <<"_">>
dots3_str == <<".", ".", ".">>
dots2_str == <<".", ".">>
amp_str == <<"&">>
elided_args_str == <<"(", ".", ".", ")">>
comma_space_str == <<",", " ">>
comma_dots_str == <<",", " ", ".", ".">>
comma_nl_str == <<",", NL>>
colon_space_str == <<":", " ">>
empty_braces_str == <<" ", "{", "}">>
open_brace_str == <<" ", "{", " ">>
close_brace_str == <<" ", "}">>

(***************************************************************************)
(* Collaborators: code of the repository outside patterns.rs.              *)
(***************************************************************************)
\* usize::checked_sub
checked_sub(a, b) == IF b > a THEN NoneInt ELSE SomeInt(a - b)

\* utils::format_mutability
format_mutability(mutability) == IF mutability THEN mut_str ELSE <<>>

\* Indent::to_string
indent_to_string(off) == Spaces(off)

\* utils::wrap_str: the text unchanged when it respects the limits
wrap_str(s, maxw, w, off) ==
  IF ~Contains(s, NL) /\ Len(s) > w THEN NoneStr
  ELSE LET lines == Lines(s)
           first_line_max_len == checked_sub(maxw, off)
       IN  IF ~first_line_max_len.some THEN NoneStr
           ELSE IF Len(lines[1]) > first_line_max_len.val THEN NoneStr
           ELSE IF \E k \in 2..Len(lines) : Len(lines[k]) > maxw THEN NoneStr
           ELSE IF Len(lines[Len(lines)]) > off + w THEN NoneStr
           ELSE SomeStr(s)

\* types::rewrite_path: the path's text when it fits the width
rewrite_path(q_self, path, w) ==
  LET text == IF q_self.some THEN <<"<">> \o q_self.ty \o <<">", ":", ":">> \o path
                             ELSE path
  IN  IF Len(text) <= w THEN SomeStr(text) ELSE NoneStr

\* Expr::rewrite of a literal: its source text when it fits
rewrite_lit(expr, w, off) == wrap_str(expr, max_width, w, off)

\* expr::rewrite_pair on two literals: one line, or no fit
rewrite_pair(lhs, rhs, prefix, infix, suffix, w, off) ==
  LET text == prefix \o lhs \o infix \o rhs \o suffix
  IN  IF Len(text) <= w THEN SomeStr(text) ELSE NoneStr

\* lists::format_item_list over the items itemize_list produced: one line
\* "a, b, c" when that fits, otherwise one item per line at the offset
format_item_list(items, w, off) ==
  LET n == Len(items) IN
  IF \E i \in 1..n : ~items[i].some THEN NoneStr
  ELSE
    LET strs == [i \in 1..n |-> items[i].str]
        horizontal == Len(Join(strs, comma_space_str)) <= w
                      /\ \A i \in 1..n : ~Contains(strs[i], NL)
        sep_len(i) == IF i < n THEN 1 ELSE 0
        item_width(i) == IF sep_len(i) > w THEN 0 ELSE w - sep_len(i)
        item_ok(i) == wrap_str(strs[i], off + w, item_width(i), off).some
    IN  IF \E i \in 1..n : ~item_ok(i) THEN NoneStr
        ELSE IF horizontal THEN SomeStr(Join(strs, comma_space_str))
        ELSE SomeStr(Join(strs, comma_nl_str \o indent_to_string(off)))

RECURSIVE rewrite(_, _, _)

\* expr::rewrite_unary_prefix
rewrite_unary_prefix(prefix, pat, w, off) ==
  LET sub_width == checked_sub(w, Len(prefix)) IN
  IF ~sub_width.some THEN NoneStr
  ELSE LET r == rewrite(pat, sub_width.val, off + Len(prefix))
       IN  IF r.some THEN SomeStr(prefix \o r.str) ELSE NoneStr

\* expr::rewrite_tuple
rewrite_tuple(items, w, off) ==
  LET indent == off + 1 IN
  IF Len(items) = 1
  THEN LET b == checked_sub(w, 3) IN
       IF ~b.some THEN NoneStr
       ELSE LET r == rewrite(items[1], b.val, indent)
            IN  IF r.some THEN SomeStr(<<"(">> \o r.str \o <<",", ")">>) ELSE NoneStr
  ELSE LET b == checked_sub(w, 2) IN
       IF ~b.some THEN NoneStr
       ELSE LET list_str == format_item_list(
                              [i \in 1..Len(items) |-> rewrite(items[i], b.val, indent)],
                              b.val, indent)
            IN  IF list_str.some THEN SomeStr(<<"(">> \o list_str.str \o <<")">>)
                ELSE NoneStr

(***************************************************************************)
(* impl Rewrite for Pat, one operator per arm of the match.                *)
(***************************************************************************)
RECURSIVE FieldPat_rewrite(_, _, _)

\* Pat_::PatIdent: prefix and mut_infix of the binding mode
PatIdentPrefix(pat) == IF pat.binding_mode = "BindByRef" THEN ref_str ELSE <<>>

PatIdentBody(pat) ==
  PatIdentPrefix(pat) \o format_mutability(pat.mutability) \o pat.ident

\* the width the sub-pattern of a binding is rewritten with
PatIdentSubWidth(pat, w) ==
  checked_sub(w, Len(PatIdentPrefix(pat)) + Len(format_mutability(pat.mutability))
                 + Len(pat.ident))

\* Pat_::PatIdent returning the assembled text without wrap_str
RewritePatIdent_NoWrap(pat, w, off) ==
  LET sub_pat ==
        IF pat.sub_pat.some
        THEN LET sub_width == PatIdentSubWidth(pat, w) IN
             IF ~sub_width.some THEN NoneStr
             ELSE LET r == rewrite(pat.sub_pat.pat, sub_width.val, off)
                  IN  IF r.some THEN SomeStr(at_str \o r.str) ELSE NoneStr
        ELSE SomeStr(<<>>)
  IN  IF ~sub_pat.some THEN NoneStr
      ELSE SomeStr(PatIdentBody(pat) \o sub_pat.str)

RewritePatIdent(pat, w, off) ==
  LET sub_pat ==
        IF pat.sub_pat.some
        THEN LET sub_width == PatIdentSubWidth(pat, w) IN
             IF ~sub_width.some THEN NoneStr
             ELSE LET r == rewrite(pat.sub_pat.pat, sub_width.val, off)
                  IN  IF r.some THEN SomeStr(at_str \o r.str) ELSE NoneStr
        ELSE SomeStr(<<>>)
  IN  IF ~sub_pat.some THEN NoneStr
      ELSE wrap_str(PatIdentBody(pat) \o sub_pat.str, max_width, w, off)

\* Pat_::PatWild
RewritePatWild(w) == IF 1 <= w THEN SomeStr(underscore_str) ELSE NoneStr

\* Pat_::PatEnum: the width the sub-patterns of a call are rewritten with
PatEnumWidth(path_str, w) == checked_sub(w, Len(path_str) + 1)

\* Pat_::PatEnum with Some(empty) handled like None
RewritePatEnum_Collapsed(pat, w, off) ==
  LET path_str == rewrite_path([some |-> FALSE], pat.path, w) IN
  IF ~path_str.some THEN NoneStr
  ELSE IF pat.pat_vec.some /\ Len(pat.pat_vec.vec) > 0
       THEN LET sub_width == PatEnumWidth(path_str.str, w) IN
            IF ~sub_width.some THEN NoneStr
            ELSE LET off2 == off + Len(path_str.str) + 1
                     items == [i \in 1..Len(pat.pat_vec.vec) |->
                                 rewrite(pat.pat_vec.vec[i], sub_width.val, off2)]
                     list_str == format_item_list(items, sub_width.val, off2)
                 IN  IF ~list_str.some THEN NoneStr
                     ELSE SomeStr(path_str.str \o <<"(">> \o list_str.str \o <<")">>)
       ELSE SomeStr(path_str.str \o elided_args_str)

RewritePatEnum(pat, w, off) ==
  LET path_str == rewrite_path([some |-> FALSE], pat.path, w) IN
  IF ~path_str.some THEN NoneStr
  ELSE IF pat.pat_vec.some
       THEN IF Len(pat.pat_vec.vec) = 0
            THEN SomeStr(path_str.str)
            ELSE LET sub_width == PatEnumWidth(path_str.str, w) IN
                 IF ~sub_width.some THEN NoneStr
                 ELSE LET off2 == off + Len(path_str.str) + 1
                          items == [i \in 1..Len(pat.pat_vec.vec) |->
                                      rewrite(pat.pat_vec.vec[i], sub_width.val, off2)]
                          list_str == format_item_list(items, sub_width.val, off2)
                      IN  IF ~list_str.some THEN NoneStr
                          ELSE SomeStr(path_str.str \o <<"(">> \o list_str.str \o <<")">>)
       ELSE SomeStr(path_str.str \o elided_args_str)

\* Pat_::PatVec without the check that every rewrite succeeded
RewritePatVec_SkipNones(pat, w, off) ==
  LET prefix == [i \in 1..Len(pat.prefix) |-> rewrite(pat.prefix[i], w, off)]
      slice_pat == IF pat.slice_pat.some
                   THEN LET r == rewrite(pat.slice_pat.pat, w, off)
                        IN  <<IF r.some THEN SomeStr(r.str \o dots2_str) ELSE NoneStr>>
                   ELSE <<>>
      suffix == [i \in 1..Len(pat.suffix) |-> rewrite(pat.suffix[i], w, off)]
      somes == SelectSeq(prefix \o slice_pat \o suffix, LAMBDA o : o.some)
  IN  SomeStr(<<"[">> \o Join([i \in 1..Len(somes) |-> somes[i].str], comma_space_str)
              \o <<"]">>)

\* Pat_::PatVec with the joined text checked against the width
RewritePatVec_Wrapped(pat, w, off) ==
  LET prefix == [i \in 1..Len(pat.prefix) |-> rewrite(pat.prefix[i], w, off)]
      slice_pat == IF pat.slice_pat.some
                   THEN LET r == rewrite(pat.slice_pat.pat, w, off)
                        IN  <<IF r.some THEN SomeStr(r.str \o dots2_str) ELSE NoneStr>>
                   ELSE <<>>
      suffix == [i \in 1..Len(pat.suffix) |-> rewrite(pat.suffix[i], w, off)]
      pats == prefix \o slice_pat \o suffix
  IN  IF \E i \in 1..Len(pats) : ~pats[i].some THEN NoneStr
      ELSE wrap_str(<<"[">> \o Join([i \in 1..Len(pats) |-> pats[i].str], comma_space_str)
                    \o <<"]">>, max_width, w, off)

\* Pat_::PatVec
RewritePatVec(pat, w, off) ==
  LET prefix == [i \in 1..Len(pat.prefix) |-> rewrite(pat.prefix[i], w, off)]
      slice_pat == IF pat.slice_pat.some
                   THEN LET r == rewrite(pat.slice_pat.pat, w, off)
                        IN  <<IF r.some THEN SomeStr(r.str \o dots2_str) ELSE NoneStr>>
                   ELSE <<>>
      suffix == [i \in 1..Len(pat.suffix) |-> rewrite(pat.suffix[i], w, off)]
      pats == prefix \o slice_pat \o suffix
      nones == {i \in 1..Len(pats) : ~pats[i].some}
  IN  IF Cardinality(nones) > 0 THEN NoneStr
      ELSE SomeStr(<<"[">> \o Join([i \in 1..Len(pats) |-> pats[i].str], comma_space_str)
                   \o <<"]">>)

\* Pat_::PatStruct: elipses_str
PatStructElipsesStr(elipses) == IF elipses THEN comma_dots_str ELSE <<>>

\* the subtraction of PatStructBudget, wrapping instead of checked
PatStructBudget_Wrapping(path_str, elipses, w) ==
  SomeInt((w - (Len(path_str) + 5 + Len(PatStructElipsesStr(elipses)))) % 65536)

\* PatStructBudget reserving the braces without their spaces
PatStructBudget_Short(path_str, elipses, w) ==
  checked_sub(w, Len(path_str) + 3 + Len(PatStructElipsesStr(elipses)))

\* the width the field list of a struct pattern is laid out in
PatStructBudget(path_str, elipses, w) ==
  checked_sub(w, Len(path_str) + 5 + Len(PatStructElipsesStr(elipses)))

\* the offset the field list of a struct pattern is laid out at
PatStructOffset(path_str, off) == off + Len(path_str) + 3

\* PatStructFieldString without the multi-line case
PatStructFieldString_OneLine(field_string, elipses, off2) ==
  IF elipses
  THEN (IF Len(field_string) > 0 THEN field_string \o comma_space_str
                                 ELSE field_string) \o dots2_str
  ELSE field_string

\* field_string after the elision marker is appended
PatStructFieldString(field_string, elipses, off2) ==
  IF elipses
  THEN IF Contains(field_string, NL)
       THEN field_string \o comma_nl_str \o indent_to_string(off2) \o dots2_str
       ELSE (IF Len(field_string) > 0 THEN field_string \o comma_space_str
                                      ELSE field_string) \o dots2_str
  ELSE field_string

\* the final form of a struct pattern
PatStructFinal(path_str, field_string) ==
  IF Len(field_string) = 0 THEN path_str \o empty_braces_str
  ELSE path_str \o open_brace_str \o field_string \o close_brace_str

RewritePatStruct(pat, w, off) ==
  LET path == rewrite_path([some |-> FALSE], pat.path, w) IN
  IF ~path.some THEN NoneStr
  ELSE LET sub_budget == PatStructBudget(path.str, pat.elipses, w) IN
       IF ~sub_budget.some THEN NoneStr
       ELSE LET off2 == PatStructOffset(path.str, off)
                items == [i \in 1..Len(pat.fields) |->
                            FieldPat_rewrite(pat.fields[i], sub_budget.val, off2)]
                field_string == format_item_list(items, sub_budget.val, off2)
            IN  IF ~field_string.some THEN NoneStr
                ELSE SomeStr(PatStructFinal(path.str,
                       PatStructFieldString(field_string.str, pat.elipses, off2)))

\* Pat_::PatMac
RewritePatMac(pat, w, off) == wrap_str(pat.snippet, max_width, w, off)

rewrite(pat, w, off) ==
  CASE pat.node = "PatBox" -> rewrite_unary_prefix(box_str, pat.pat, w, off)
    [] pat.node = "PatIdent" -> RewritePatIdent(pat, w, off)
    [] pat.node = "PatWild" -> RewritePatWild(w)
    [] pat.node = "PatQPath" ->
         rewrite_path([some |-> TRUE, ty |-> pat.q_self], pat.path, w)
    [] pat.node = "PatRange" ->
         rewrite_pair(pat.lhs, pat.rhs, <<>>, dots3_str, <<>>, w, off)
    [] pat.node = "PatRegion" ->
         rewrite_unary_prefix(amp_str \o format_mutability(pat.mutability), pat.pat, w, off)
    [] pat.node = "PatTup" -> rewrite_tuple(pat.items, w, off)
    [] pat.node = "PatEnum" -> RewritePatEnum(pat, w, off)
    [] pat.node = "PatLit" -> rewrite_lit(pat.expr, w, off)
    [] pat.node = "PatVec" -> RewritePatVec(pat, w, off)
    [] pat.node = "PatStruct" -> RewritePatStruct(pat, w, off)
    [] pat.node = "PatMac" -> RewritePatMac(pat, w, off)

\* FieldPat::rewrite deciding shorthand by comparing the names
FieldPat_rewrite_ByName(fp, w, off) ==
  LET pat == rewrite(fp.pat, w, off) IN
  IF fp.pat.node = "PatIdent" /\ fp.pat.ident = fp.ident THEN pat
  ELSE IF pat.some THEN SomeStr(fp.ident \o colon_space_str \o pat.str) ELSE NoneStr

(***************************************************************************)
(* impl Rewrite for FieldPat                                               *)
(***************************************************************************)
FieldPat_rewrite(fp, w, off) ==
  LET pat == rewrite(fp.pat, w, off) IN
  IF fp.is_shorthand THEN pat
  ELSE IF pat.some THEN SomeStr(fp.ident \o colon_space_str \o pat.str) ELSE NoneStr

(***************************************************************************)
(* The syntax trees the rewrite is applied to.                             *)
(***************************************************************************)
NoPat == [some |-> FALSE]
SomePat(p) == [some |-> TRUE, pat |-> p]

PatWild == [node |-> "PatWild"]
PatIdent(bm, m, id, sub) ==
  [node |-> "PatIdent", binding_mode |-> bm, mutability |-> m, ident |-> id,
   sub_pat |-> sub]
PatBox(p) == [node |-> "PatBox", pat |-> p]
PatRegion(p, m) == [node |-> "PatRegion", pat |-> p, mutability |-> m]
PatTup(items) == [node |-> "PatTup", items |-> items]
PatEnum(path, pat_vec) == [node |-> "PatEnum", path |-> path, pat_vec |-> pat_vec]
PatVec(prefix, slice_pat, suffix) ==
  [node |-> "PatVec", prefix |-> prefix, slice_pat |-> slice_pat, suffix |-> suffix]
PatStruct(path, fields, elipses) ==
  [node |-> "PatStruct", path |-> path, fields |-> fields, elipses |-> elipses]
FieldPat(id, p, sh) == [ident |-> id, pat |-> p, is_shorthand |-> sh]

SeqUpTo1(S) == {<<>>} \cup {<<a>> : a \in S}
SeqUpTo2(S) == SeqUpTo1(S) \cup {<<a, b>> : a \in S, b \in S}

BindingModes == {"BindByRef", "BindByValue"}
Paths == {<<"F">>, <<"F", "o", "o">>}

Bindings == {PatIdent(bm, m, <<"x">>, NoPat) : bm \in BindingModes, m \in BOOLEAN}

Leaves ==
  {PatWild} \cup Bindings
  \cup {[node |-> "PatLit", expr |-> <<"1">>],
        [node |-> "PatMac", snippet |-> <<"m", "!", "(", ")">>],
        [node |-> "PatMac", snippet |-> <<"m", "!", "(", NL, ")">>],
        [node |-> "PatQPath", q_self |-> <<"T">>, path |-> <<"C">>],
        [node |-> "PatRange", lhs |-> <<"1">>, rhs |-> <<"2">>]}

Elems == {PatWild, PatIdent("BindByValue", FALSE, <<"x">>, NoPat),
          PatIdent("BindByRef", TRUE, <<"x">>, NoPat)}

SliceElems == {PatWild, PatIdent("BindByValue", FALSE, <<"a">>, NoPat),
               PatIdent("BindByRef", TRUE, <<"a">>, NoPat)}

Fields ==
  {FieldPat(<<"x">>, PatIdent("BindByValue", FALSE, <<"x">>, NoPat), TRUE),
   FieldPat(<<"x">>, PatIdent("BindByValue", FALSE, <<"x">>, NoPat), FALSE),
   FieldPat(<<"y">>, PatIdent("BindByValue", FALSE, <<"z">>, NoPat), TRUE),
   FieldPat(<<"y">>, PatIdent("BindByValue", FALSE, <<"z">>, NoPat), FALSE),
   FieldPat(<<"y">>, PatWild, FALSE)}

Structs == {PatStruct(p, fs, e) : p \in Paths, fs \in SeqUpTo2(Fields), e \in BOOLEAN}

Enums ==
  {PatEnum(p, [some |-> FALSE]) : p \in Paths}
  \cup {PatEnum(p, [some |-> TRUE, vec |-> v]) : p \in Paths, v \in SeqUpTo2(Elems)}

Vecs ==
  {PatVec(pre, NoPat, suf) : pre \in SeqUpTo1(SliceElems), suf \in SeqUpTo1(SliceElems)}
  \cup {PatVec(pre, SomePat(s), suf) :
          pre \in SeqUpTo1(SliceElems), s \in SliceElems, suf \in SeqUpTo1(SliceElems)}

Level1 ==
  {PatBox(p) : p \in Elems}
  \cup {PatRegion(p, m) : p \in Elems, m \in BOOLEAN}
  \cup {PatIdent(bm, m, <<"x">>, SomePat(p)) :
          bm \in BindingModes, m \in BOOLEAN, p \in Elems}
  \cup {PatTup(v) : v \in SeqUpTo2(Elems)}
  \cup Enums \cup Vecs \cup Structs

Level2 ==
  {PatIdent("BindByValue", FALSE, <<"x">>, SomePat(p)) : p \in Level1}
  \cup {PatBox(p) : p \in Level1}
  \cup {PatEnum(<<"F">>, [some |-> TRUE, vec |-> <<p>>]) : p \in Level1}
  \cup {PatVec(<<p>>, NoPat, <<>>) : p \in Level1}
  \cup {PatStruct(<<"F">>, <<FieldPat(<<"y">>, p, FALSE)>>, e) :
          p \in Level1, e \in BOOLEAN}

Pats == Leaves \cup Level1 \cup Level2

FieldPats ==
  Fields \cup {FieldPat(<<"y">>, p, sh) : p \in Leaves \cup Level1, sh \in BOOLEAN}

(***************************************************************************)
(* The calls: a caller rewrites a pattern or a field pattern in a width at *)
(* an offset, and may retry the same node one column wider.                *)
(***************************************************************************)
\* the width the arm hands to its sub-pattern or to the list layout
ChildBudget(tgt, n, w) ==
  IF tgt # "Pat" THEN NoneInt
  ELSE IF n.node = "PatIdent" /\ n.sub_pat.some THEN PatIdentSubWidth(n, w)
  ELSE IF n.node = "PatEnum" /\ n.pat_vec.some /\ Len(n.pat_vec.vec) > 0
          /\ rewrite_path([some |-> FALSE], n.path, w).some
       THEN PatEnumWidth(rewrite_path([some |-> FALSE], n.path, w).str, w)
  ELSE IF n.node = "PatStruct" /\ rewrite_path([some |-> FALSE], n.path, w).some
       THEN PatStructBudget(rewrite_path([some |-> FALSE], n.path, w).str, n.elipses, w)
  ELSE NoneInt

Call(tgt, n, w, off) ==
  IF tgt = "Pat" THEN rewrite(n, w, off) ELSE FieldPat_rewrite(n, w, off)

\* A caller never offers more than the columns left of max_width after the
\* offset: width + offset <= max_width.
Init ==
  /\ target \in {"Pat", "FieldPat"}
  /\ node \in (IF target = "Pat" THEN Pats ELSE FieldPats)
  /\ offset \in 0..MaxOffset
  /\ width \in 0..(max_width - offset)
  /\ budget = NoneInt
  /\ result = NoneStr
  /\ prev = NoneStr
  /\ retried = FALSE
  /\ pc = "start"

RewritePat ==
  /\ pc = "start"
  /\ target = "Pat"
  /\ result' = rewrite(node, width, offset)
  /\ budget' = ChildBudget(target, node, width)
  /\ pc' = "done"
  /\ UNCHANGED <<target, node, width, offset, prev, retried>>

RewriteFieldPat ==
  /\ pc = "start"
  /\ target = "FieldPat"
  /\ result' = FieldPat_rewrite(node, width, offset)
  /\ budget' = ChildBudget(target, node, width)
  /\ pc' = "done"
  /\ UNCHANGED <<target, node, width, offset, prev, retried>>

Retry ==
  /\ pc = "done"
  /\ width + offset < max_width
  /\ width' = width + 1
  /\ prev' = result
  /\ retried' = TRUE
  /\ result' = Call(target, node, width', offset)
  /\ budget' = ChildBudget(target, node, width')
  /\ UNCHANGED <<target, node, offset, pc>>

Next == RewritePat \/ RewriteFieldPat \/ Retry

Spec == Init /\ [][Next]_vars

(***************************************************************************)
(* Properties.                                                             *)
(***************************************************************************)
Done == pc = "done"
IsPat(kind) == target = "Pat" /\ node.node = kind
PathOf(n, w) == rewrite_path([some |-> FALSE], n.path, w)

\* C1: a successful rewrite returns a text whose first line is no longer
\* than the width of the call.
C1_FirstLineFits ==
  (Done /\ result.some) => FirstLineLen(result.str) <= width

\* C2: a node that was rewritten at a width is also rewritten one column
\* wider: success never turns into no-fit when the width grows.
C2_MonotoneInWidth ==
  (retried /\ prev.some) => result.some

\* C3: when a direct sub-computation does not fit (the sub-pattern of a
\* binding, an element of a slice, the pattern of a field, the path of a
\* call or of a struct) the enclosing rewrite does not fit either.
C3_NoFitPropagates ==
  Done =>
    /\ (IsPat("PatIdent") /\ node.sub_pat.some /\ Len(PatIdentBody(node)) <= width
        /\ ~rewrite(node.sub_pat.pat, width - Len(PatIdentBody(node)), offset).some)
         => ~result.some
    /\ (IsPat("PatVec")
        /\ \/ \E i \in 1..Len(node.prefix) : ~rewrite(node.prefix[i], width, offset).some
           \/ node.slice_pat.some /\ ~rewrite(node.slice_pat.pat, width, offset).some
           \/ \E i \in 1..Len(node.suffix) : ~rewrite(node.suffix[i], width, offset).some)
         => ~result.some
    /\ ((IsPat("PatEnum") \/ IsPat("PatStruct")) /\ ~PathOf(node, width).some)
         => ~result.some
    /\ (target = "FieldPat" /\ ~rewrite(node.pat, width, offset).some)
         => ~result.some

\* a slice with an element that fits and an element that does not
C3_Witness ==
  /\ Done /\ IsPat("PatVec") /\ ~result.some
  /\ Len(node.prefix) = 1 /\ rewrite(node.prefix[1], width, offset).some
  /\ Len(node.suffix) = 1 /\ ~rewrite(node.suffix[1], width, offset).some

\* C4: the three states of the sub-pattern list of a path call give three
\* different texts: p(..) for none, p for an empty list, p(list) for a
\* non-empty one, the list laid out in width - (len(p) + 1) at offset +
\* len(p) + 1, and no-fit when len(p) + 1 exceeds the width.
C4_PathCallThreeStates ==
  (Done /\ IsPat("PatEnum") /\ PathOf(node, width).some) =>
    LET p == PathOf(node, width).str
        elided == rewrite(PatEnum(node.path, [some |-> FALSE]), width, offset)
        empty == rewrite(PatEnum(node.path, [some |-> TRUE, vec |-> <<>>]), width, offset)
    IN  /\ elided # empty
        /\ ~node.pat_vec.some => result = SomeStr(p \o <<"(", ".", ".", ")">>)
        /\ (node.pat_vec.some /\ node.pat_vec.vec = <<>>) => result = SomeStr(p)
        /\ (node.pat_vec.some /\ node.pat_vec.vec # <<>>) =>
             IF Len(p) + 1 > width THEN ~result.some
             ELSE LET w2 == width - (Len(p) + 1)
                      off2 == offset + Len(p) + 1
                      list == format_item_list(
                                [i \in 1..Len(node.pat_vec.vec) |->
                                   rewrite(node.pat_vec.vec[i], w2, off2)], w2, off2)
                  IN  IF list.some
                      THEN /\ result = SomeStr(p \o <<"(">> \o list.str \o <<")">>)
                           /\ result # elided
                           /\ result # empty
                      ELSE ~result.some

\* a call with two sub-patterns that was rewritten
C4_Witness ==
  /\ Done /\ IsPat("PatEnum") /\ result.some
  /\ node.pat_vec.some /\ Len(node.pat_vec.vec) = 2

\* the subtraction of `amount` from the width of the call was checked
Checked(amount) ==
  IF amount > width THEN ~result.some /\ ~budget.some
  ELSE budget.some /\ budget.val = width - amount /\ budget.val >= 0
       /\ budget.val <= width

\* C5: the width handed to the sub-pattern of a binding, to the list of a
\* path call and to the field list of a struct is the width of the call
\* minus the reserved columns; when the reserved columns exceed the width
\* the rewrite is no-fit, and the width handed down is never negative,
\* wrapped or larger than the width of the call.
C5_BudgetChecked ==
  Done =>
    /\ (IsPat("PatIdent") /\ node.sub_pat.some) =>
         Checked(Len(IF node.binding_mode = "BindByRef" THEN ref_str ELSE <<>>)
                 + Len(IF node.mutability THEN mut_str ELSE <<>>) + Len(node.ident))
    /\ (IsPat("PatEnum") /\ node.pat_vec.some /\ node.pat_vec.vec # <<>>
        /\ PathOf(node, width).some) =>
         Checked(Len(PathOf(node, width).str) + 1)
    /\ (IsPat("PatStruct") /\ PathOf(node, width).some) =>
         Checked(Len(PathOf(node, width).str) + 5 + (IF node.elipses THEN 4 ELSE 0))

\* a struct whose path fits and whose reserved columns do not
C5_Witness ==
  /\ Done /\ IsPat("PatStruct") /\ PathOf(node, width).some
  /\ Len(PathOf(node, width).str) + 5 + (IF node.elipses THEN 4 ELSE 0) > width
  /\ ~result.some /\ ~budget.some

\* the field text of the struct in the state, as the list layout returns it
StructFieldText ==
  LET p == PathOf(node, width).str
      b == width - (Len(p) + 5 + (IF node.elipses THEN 4 ELSE 0))
      off2 == offset + Len(p) + 3
  IN  format_item_list([i \in 1..Len(node.fields) |->
                          FieldPat_rewrite(node.fields[i], b, off2)], b, off2)

StructHasBudget ==
  /\ PathOf(node, width).some
  /\ Len(PathOf(node, width).str) + 5 + (IF node.elipses THEN 4 ELSE 0) <= width

\* C6: with the rest marker the field text f becomes f, a comma, a line
\* break, the indentation of offset + len(path) + 3 and ".." when f has a
\* line break, f + ", .." when f is one non-empty line and ".." when f is
\* empty; the result is path + " {}" for an empty field text and
\* path + " { " + fields + " }" otherwise.
C6_StructElision ==
  (Done /\ IsPat("PatStruct") /\ StructHasBudget /\ StructFieldText.some) =>
    LET p == PathOf(node, width).str
        f == StructFieldText.str
        fields == IF node.elipses
                  THEN IF Contains(f, "\n")
                       THEN f \o <<",", "\n">> \o [i \in 1..(offset + Len(p) + 3) |-> " "]
                              \o <<".", ".">>
                       ELSE IF f # <<>> THEN f \o <<",", " ", ".", ".">>
                       ELSE <<".", ".">>
                  ELSE f
    IN  /\ result.some
        /\ result.str = IF fields = <<>> THEN p \o <<" ", "{", "}">>
                        ELSE p \o <<" ", "{", " ">> \o fields \o <<" ", "}">>
        /\ node.fields = <<>> =>
             result.str = p \o (IF node.elipses THEN <<" ", "{", " ", ".", ".", " ", "}">>
                                                ELSE <<" ", "{", "}">>)

\* a struct with the rest marker whose fields were laid out on several lines
C6_Witness ==
  /\ Done /\ IsPat("PatStruct") /\ node.elipses /\ StructHasBudget
  /\ StructFieldText.some /\ Contains(StructFieldText.str, "\n")
  /\ result.some

\* the rewrites of the elements of the slice in the state, in order
SliceElements ==
  [i \in 1..Len(node.prefix) |-> rewrite(node.prefix[i], width, offset)]
  \o (IF node.slice_pat.some
      THEN LET r == rewrite(node.slice_pat.pat, width, offset)
           IN  <<[some |-> r.some, str |-> r.str \o <<".", ".">>]>>
      ELSE <<>>)
  \o [i \in 1..Len(node.suffix) |-> rewrite(node.suffix[i], width, offset)]

\* C7: a slice is rewritten exactly when all its elements are, each in the
\* width and at the offset of the slice; the text is then the elements in
\* the order prefix, rest + "..", suffix, joined by ", " between brackets,
\* whatever its length.
C7_SliceJoin ==
  (Done /\ IsPat("PatVec")) =>
    LET es == SliceElements IN
    /\ result.some <=> \A i \in 1..Len(es) : es[i].some
    /\ result.some =>
         result.str = <<"[">> \o Join([i \in 1..Len(es) |-> es[i].str], <<",", " ">>)
                      \o <<"]">>
    /\ Len(es) = 0 => result = SomeStr(<<"[", "]">>)

\* a slice with prefix, rest and suffix whose text is longer than the width
C7_Witness ==
  /\ Done /\ IsPat("PatVec") /\ result.some
  /\ Len(node.prefix) = 1 /\ node.slice_pat.some /\ Len(node.suffix) = 1
  /\ Len(result.str) > width

\* C8: a binding without sub-pattern is rewritten to its body ("ref ",
\* "mut " and the name) exactly when the body fits the width; with a
\* sub-pattern, the sub-pattern is rewritten in width - len(body) and
\* body + " @ " + sub-pattern is returned only when wrap_str accepts it
\* for the width of the call.
C8_Binding ==
  (Done /\ IsPat("PatIdent")) =>
    LET body == (IF node.binding_mode = "BindByRef" THEN <<"r", "e", "f", " ">> ELSE <<>>)
                \o (IF node.mutability THEN <<"m", "u", "t", " ">> ELSE <<>>)
                \o node.ident
    IN  /\ ~node.sub_pat.some =>
             result = IF Len(body) <= width THEN SomeStr(body) ELSE NoneStr
        /\ (~node.sub_pat.some /\ node.binding_mode = "BindByRef" /\ node.mutability
            /\ node.ident = <<"x">>) =>
             /\ width >= 9 => result = SomeStr(<<"r", "e", "f", " ", "m", "u", "t", " ", "x">>)
             /\ width <= 8 => ~result.some
        /\ node.sub_pat.some =>
             IF Len(body) > width THEN ~result.some
             ELSE LET r == rewrite(node.sub_pat.pat, width - Len(body), offset) IN
                  IF ~r.some THEN ~result.some
                  ELSE LET text == body \o <<" ", "@", " ">> \o r.str IN
                       /\ result.some => result.str = text
                       /\ result.some <=> wrap_str(text, max_width, width, offset).some
                       /\ (~Contains(text, "\n") /\ Len(text) > width) => ~result.some

\* a binding whose sub-pattern was rewritten and whose assembled text was
\* rejected
C8_Witness ==
  /\ Done /\ IsPat("PatIdent") /\ node.sub_pat.some /\ ~result.some
  /\ Len(PatIdentBody(node)) <= width
  /\ rewrite(node.sub_pat.pat, width - Len(PatIdentBody(node)), offset).some

\* C9: a field pattern rewrites its pattern in the width and at the offset
\* it was given; a shorthand field returns that result unchanged, another
\* field returns name + ": " + pattern or no-fit; the is_shorthand flag
\* alone decides, not the names.
C9_FieldPattern ==
  (Done /\ target = "FieldPat") =>
    LET r == rewrite(node.pat, width, offset) IN
    IF node.is_shorthand THEN result = r
    ELSE IF r.some THEN result = SomeStr(node.ident \o <<":", " ">> \o r.str)
    ELSE ~result.some

\* a field written x: x, not shorthand although the names agree
C9_Witness ==
  /\ Done /\ target = "FieldPat" /\ ~node.is_shorthand
  /\ node.pat.node = "PatIdent" /\ node.pat.ident = node.ident
  /\ result = SomeStr(<<"x", ":", " ", "x">>)

\* the field text the list layout returns for the struct in the state in
\* the budget the struct arm gave it
StructFieldTextInBudget ==
  LET off2 == offset + Len(PathOf(node, width).str) + 3
  IN  format_item_list([i \in 1..Len(node.fields) |->
                          FieldPat_rewrite(node.fields[i], budget.val, off2)],
                       budget.val, off2)

\* C10: when the field text of a struct is one line no longer than the
\* budget the list layout was given, the whole text of the struct is no
\* longer than the width of the call, with or without rest marker and fields.
C10_StructReservation ==
  (Done /\ IsPat("PatStruct") /\ result.some /\ budget.some
   /\ StructFieldTextInBudget.some
   /\ ~Contains(StructFieldTextInBudget.str, "\n")
   /\ Len(StructFieldTextInBudget.str) <= budget.val)
    => Len(result.str) <= width

\* a struct with fields and the rest marker that fills the width exactly
C10_Witness ==
  /\ Done /\ IsPat("PatStruct") /\ result.some /\ node.elipses
  /\ Len(node.fields) = 2 /\ ~Contains(result.str, "\n")
  /\ Len(result.str) = width

====
